---- MODULE Spec2Model ----
(***************************************************************************)
(* CodeRefine: the handlers of src/codeeee.py (run_code,                   *)
(* analyze_code_short) and of src/code.py (analyze_code,                   *)
(* generate_summary) as state machines.                                    *)
(*                                                                         *)
(* Python strings are sequences of one-character strings, so that strip,   *)
(* upper, lower, split, `in` and the regular expressions are computed      *)
(* character by character as the interpreter computes them.  A display     *)
(* string built by an f-string is the tuple of its parts: its emoji, its    *)
(* fixed text and its interpolated values.                                 *)
(***************************************************************************)
EXTENDS Naturals, Sequences, FiniteSets

VARIABLES
    users_db,        \* codeeee.py: username -> record, the in-memory mapping
    users_file,      \* codeeee.py: the mapping stored in coderefine_users.json
    current_user,    \* codeeee.py: the logged-in username, or None
    client,          \* the model client handle, or None
    GROQ_AVAILABLE,  \* codeeee.py: whether the groq package could be imported
    model_reply,     \* what the chat-completion endpoint answers in this run
    last_op,         \* the handler that ran last ("init" before any call)
    run_call,        \* run_code: the arguments of the last call
    run_ret,         \* run_code: the pair it returned
    run_obs,         \* run_code: what the call did to the file system and processes
    an_call,         \* analyze_code_short, analyze_code: the arguments of the last call
    an_ret,          \* analyze_code_short, analyze_code: the outcome of the last call
    an_obs,          \* analyze_code_short, analyze_code: the requests the call sent
    auth_call,       \* signup, login, logout: the handler and arguments of the last call
    auth_ret,        \* signup, login, logout: what the last call returned
    an_thread,       \* analyze_code_short: the call that waits for the model's reply
                     \* while handlers of another browser session run
    page             \* codeeee.py: which of main_page and auth_page the browser shows

session_vars == <<users_db, users_file, current_user, client, GROQ_AVAILABLE, model_reply>>
run_vars == <<run_call, run_ret, run_obs>>
an_vars == <<an_call, an_ret, an_obs>>
auth_vars == <<auth_call, auth_ret>>
vars == <<session_vars, last_op, run_vars, an_vars, auth_vars, an_thread, page>>


----------------------------------------------------------------------------
(* Bounds of the model *)

\* longest code string submitted to run_code
MaxCodeLen == 2

\* number of fragments a model reply is put together from
MaxFrags == 2

\* analyses counted per user
MaxAnalyses == 1

\* number of blocks of lines a reply to the first prototype is put together from
MaxBlocks == 4

----------------------------------------------------------------------------
(* Python str primitives *)

\* str.strip() with no argument and the regular expressions' \s: ASCII whitespace
Whitespace == {" ", "\t", "\n", "\r", "\f"}

SetMin(S) == CHOOSE x \in S : \A y \in S : x <= y

SetMax(S) == CHOOSE x \in S : \A y \in S : x >= y

\* s.strip(): s without its leading and trailing whitespace
Strip(s) ==
    LET keep == {i \in 1..Len(s) : s[i] \notin Whitespace}
    IN  IF keep = {} THEN << >> ELSE SubSeq(s, SetMin(keep), SetMax(keep))

\* every sequence over alphabet of length at most n
SeqsUpTo(alphabet, n) == UNION {[1..k -> alphabet] : k \in 0..n}

\* the emoji that open the display strings
CheckMark == "<check mark>"

CrossMark == "<cross mark>"

WarningSign == "<warning sign>"

\* Python's None, as the value of current_user
None == "None"

\* Python's None, as the value of client
NoClient == [configured |-> FALSE, api_key |-> << >>]

\* the handle Groq(api_key=api_key) returns
Groq(api_key) == [configured |-> TRUE, api_key |-> api_key]

\* datetime.now().strftime(...), whatever the clock shows
Timestamp == "<now>"

----------------------------------------------------------------------------
(* Python str primitives used by the parsers *)

Lowercase ==
    <<"a", "b", "c", "d", "e", "f", "g", "h", "i", "j", "k", "l", "m", "n", "o", "p",
      "q", "r", "s", "t", "u", "v", "w", "x", "y", "z">>

Uppercase ==
    <<"A", "B", "C", "D", "E", "F", "G", "H", "I", "J", "K", "L", "M", "N", "O", "P",
      "Q", "R", "S", "T", "U", "V", "W", "X", "Y", "Z">>

Digits == {"0", "1", "2", "3", "4", "5", "6", "7", "8", "9"}

LowerSet == {Lowercase[i] : i \in 1..26}

UpperSet == {Uppercase[i] : i \in 1..26}

ToUpper == [c \in LowerSet |-> Uppercase[CHOOSE i \in 1..26 : Lowercase[i] = c]]

ToLower == [c \in UpperSet |-> Lowercase[CHOOSE i \in 1..26 : Uppercase[i] = c]]

\* an upper() that leaves the text as it is
UpperUnchanged(s) == s

\* s.upper()
Upper(s) == [i \in 1..Len(s) |-> IF s[i] \in LowerSet THEN ToUpper[s[i]] ELSE s[i]]

\* s.lower()
Lower(s) == [i \in 1..Len(s) |-> IF s[i] \in UpperSet THEN ToLower[s[i]] ELSE s[i]]

\* sub occurs in s at index i
StartsAt(s, i, sub) ==
    /\ i >= 1
    /\ i + Len(sub) - 1 <= Len(s)
    /\ \A k \in 1..Len(sub) : s[i + k - 1] = sub[k]

\* sub in s
Contains(s, sub) == \E i \in 1..(Len(s) + 1) : StartsAt(s, i, sub)

\* the regular expressions' \w, on ASCII text
WordChars == LowerSet \cup UpperSet \cup Digits \cup {"_"}

\* the end of a greedy character-class repetition that starts at i: the first
\* index from i on whose character is outside the class, Len(s) + 1 when there is none
RECURSIVE RunEnd(_, _, _)
RunEnd(s, i, inClass) ==
    IF i <= Len(s) /\ s[i] \in inClass THEN RunEnd(s, i + 1, inClass) ELSE i

\* the same for a negated class [^...]
RECURSIVE RunEndNot(_, _, _)
RunEndNot(s, i, notInClass) ==
    IF i <= Len(s) /\ s[i] \notin notInClass THEN RunEndNot(s, i + 1, notInClass) ELSE i

\* the least index from i on at which sub occurs in s, 0 when there is none
FindFrom(s, i, sub) ==
    LET hits == {k \in i..Len(s) : StartsAt(s, k, sub)}
    IN  IF hits = {} THEN 0 ELSE SetMin(hits)

\* the result of re.search: whether the pattern matched, and its group(1)
NoMatch == [matched |-> FALSE, group |-> << >>]

Match(g) == [matched |-> TRUE, group |-> g]

----------------------------------------------------------------------------
(* run_code, src/codeeee.py:108-168 *)

\* the language dropdown of the page; only the first two are executable
Languages == {"Python", "JavaScript", "Java", "C++"}

CodeChars == {" ", "\n", "p"}

RunCodes == SeqsUpTo(CodeChars, MaxCodeLen)

\* What the operating system does during one call: whether the temporary file
\* can be created and written, how subprocess.run ends, what the child prints,
\* and whether the child removes the script it was started from.
RunEnvs ==
    LET env(c, w, p, o, e, u) ==
            [create |-> c, write |-> w, proc |-> p, stdout |-> o, stderr |-> e,
             child_unlinks |-> u]
    IN  {env("OSError", "ok", "none", "", "", FALSE),
         env("ok", "OSError", "none", "", "", FALSE)}
        \cup {env("ok", "ok", p, "", "", FALSE) : p \in {"FileNotFoundError", "PermissionError"}}
        \cup {env("ok", "ok", "TimeoutExpired", "", "", u) : u \in BOOLEAN}
        \cup {env("ok", "ok", x[1], x[2], x[3], x[4]) :
                 x \in {"exit0", "exit1"} \X {"", "out"} \X {"", "err"} \X BOOLEAN}

Return(v) == [kind |-> "return", val |-> v, exc |-> "none"]

Raise(e) == [kind |-> "raise", val |-> << >>, exc |-> e]

\* line 112
NoCodeToRun == [display |-> <<WarningSign, "No code to run!">>, raw |-> ""]

\* lines 131, 154
ExecutionSuccessful(output) ==
    [display |-> <<CheckMark, "Execution Successful\n\n", output>>, raw |-> output]

\* lines 133, 156
ExecutionFailed(error) ==
    [display |-> <<CrossMark, "Execution Failed\n\n", error>>, raw |-> error]

\* line 158
NodeNotInstalled ==
    [display |-> <<CrossMark, "Node.js not installed! Only Python execution is available.">>,
     raw |-> ""]

\* line 163
NotSupported(language) ==
    [display |-> <<WarningSign, "Code execution for ", language,
                   " is not supported yet. Only Python and JavaScript are supported.">>,
     raw |-> ""]

\* line 166
ExecutionTimeout ==
    [display |-> <<CrossMark, "Execution timeout! Code took too long to run.">>, raw |-> ""]

\* line 168
ExecutionError(e) == [display |-> <<CrossMark, "Execution error: ", e>>, raw |-> ""]

\* a blank test that forgets strip()
BlankOnlyEmpty(code) == code = << >>

\* line 111: not code.strip()
IsBlank(code) == Strip(code) = << >>

\* a branch test that also sends Java to an interpreter
ExecutableOrJava(language) == language \in {"Python", "JavaScript", "Java"}

\* lines 114, 137: the branches that execute
Executable(language) == language \in {"Python", "JavaScript"}

\* lines 115-117, 138-140: NamedTemporaryFile(delete=False) and f.write(code).
\* The file that was created stays on disk when the write raises: delete=False,
\* and the try/finally that unlinks it has not been entered yet.
WriteTemp(env) ==
    IF env.create # "ok" THEN [exc |-> env.create, created |-> FALSE]
    ELSE IF env.write # "ok" THEN [exc |-> env.write, created |-> TRUE]
    ELSE [exc |-> "none", created |-> TRUE]

\* subprocess.run starts a child unless the interpreter cannot be started
Spawns(env) == env.proc \in {"exit0", "exit1", "TimeoutExpired"}

\* lines 120-133, 143-156: the body of the inner try
RunBody(env) ==
    IF env.proc \in {"TimeoutExpired", "FileNotFoundError", "PermissionError"}
    THEN Raise(env.proc)
    ELSE IF env.proc = "exit0"
         THEN Return(ExecutionSuccessful(env.stdout))
         ELSE Return(ExecutionFailed(env.stderr))

\* lines 157-158: only the JavaScript branch has an except clause of its own
InnerExcept(language, outcome) ==
    IF language = "JavaScript" /\ outcome.kind = "raise" /\ outcome.exc = "FileNotFoundError"
    THEN Return(NodeNotInstalled)
    ELSE outcome

\* the script is still on disk when the finally clause runs
ScriptOnDisk(env) == ~(Spawns(env) /\ env.child_unlinks)

\* lines 134-135, 159-160: finally: os.unlink(temp_file).  An exception raised
\* by the finally clause replaces the pending return value or exception.
Finally(env, outcome) ==
    IF ScriptOnDisk(env) THEN outcome ELSE Raise("FileNotFoundError")

\* lines 165-168: the except clauses of the outer try
OuterExcept(outcome) ==
    IF outcome.kind = "return" THEN outcome.val
    ELSE IF outcome.exc = "TimeoutExpired" THEN ExecutionTimeout
    ELSE ExecutionError(outcome.exc)

NoEffects ==
    [created |-> FALSE, spawned |-> FALSE, temp_exists |-> FALSE,
     proc |-> "none", stdout |-> "", stderr |-> ""]

\* run_*, an_* and auth_* describe the last call when it was a call of their
\* handler; before any call, and after a call of another handler, they have
\* the values below.
NoRunCall == [code |-> << >>, language |-> "Python"]

NoRunReturn == [display |-> << >>, raw |-> ""]

NoCall == [code |-> << >>, language |-> "Python", api_key |-> << >>]

NoAuthCall == [op |-> "none", username |-> "", password |-> << >>, confirm_password |-> << >>]

NoAuthReturn == [msg |-> << >>, main_page |-> None]

\* no call of analyze_code_short waits for a reply
NoThread == [pc |-> "idle", code |-> << >>, language |-> "Python", started_by |-> None]

InitRun ==
    /\ run_call = NoRunCall
    /\ run_ret = NoRunReturn
    /\ run_obs = NoEffects

InitAnalyze ==
    /\ an_call = NoCall
    /\ an_ret = Return(<< >>)
    /\ an_obs = [completion_calls |-> 0]
    /\ an_thread = NoThread

\* lines 524 and 556: the page as it is built, and lines 84: as a login leaves it
InitialPage == [main_page |-> "hidden", auth_page |-> "visible"]

LoggedInPage == [main_page |-> "visible", auth_page |-> "hidden"]

\* what an output component shows after a handler returned upd for it: a
\* gr.update(visible=...) sets its visibility, None is no update
Shown(upd, now) == IF upd = None THEN now ELSE upd

InitAuth ==
    /\ auth_call = NoAuthCall
    /\ auth_ret = NoAuthReturn
    /\ page = IF current_user = None THEN InitialPage ELSE LoggedInPage

IdleRun ==
    /\ run_call' = NoRunCall
    /\ run_ret' = NoRunReturn
    /\ run_obs' = NoEffects

IdleAnalyze ==
    /\ an_call' = NoCall
    /\ an_ret' = Return(<< >>)
    /\ an_obs' = [completion_calls |-> 0]

IdleAuth ==
    /\ auth_call' = NoAuthCall
    /\ auth_ret' = NoAuthReturn

\* what run_code(code, language) returns and does under env
RunCodeResult(code, language, env) ==
    IF IsBlank(code) THEN [ret |-> NoCodeToRun, obs |-> NoEffects]
    ELSE IF Executable(language)
    THEN LET w == WriteTemp(env)
         IN  IF w.exc # "none"
             THEN [ret |-> OuterExcept(Raise(w.exc)),
                   obs |-> [NoEffects EXCEPT !.created = w.created,
                                             !.temp_exists = w.created]]
             ELSE [ret |-> OuterExcept(Finally(env, InnerExcept(language, RunBody(env)))),
                   obs |-> [created |-> TRUE,
                            spawned |-> Spawns(env),
                            temp_exists |-> FALSE,
                            proc |-> env.proc,
                            stdout |-> IF Spawns(env) THEN env.stdout ELSE "",
                            stderr |-> IF Spawns(env) THEN env.stderr ELSE ""]]
    ELSE [ret |-> NotSupported(language), obs |-> NoEffects]

\* one call of run_code
RunCodeWith(code, language, env) ==
    LET r == RunCodeResult(code, language, env)
    IN  /\ last_op' = "run_code"
        /\ run_call' = [code |-> code, language |-> language]
        /\ run_ret' = r.ret
        /\ run_obs' = r.obs
        /\ IdleAnalyze
        /\ IdleAuth
        /\ UNCHANGED <<session_vars, an_thread, page>>

\* the Run button, lines 703-707
RunCode ==
    \E code \in RunCodes, language \in Languages, env \in RunEnvs :
        RunCodeWith(code, language, env)

----------------------------------------------------------------------------
(* The response parser of analyze_code_short, src/codeeee.py:233-261 *)

NO_ERRORS ==
    <<"N", "O", " ", "E", "R", "R", "O", "R", "S">>

ERRORS_FOUND ==
    <<"E", "R", "R", "O", "R", "S", " ", "F", "O", "U", "N", "D">>

\* lines 235, 237: the two values of error_status
NoErrorsDetected == "NO ERRORS DETECTED"

ErrorsFound == "ERRORS FOUND"

\* a classification that lost its `not`
ParseErrorStatusNoNot(analysis) ==
    IF Contains(Upper(analysis), NO_ERRORS) /\ Contains(Upper(analysis), ERRORS_FOUND)
    THEN NoErrorsDetected
    ELSE ErrorsFound

\* lines 234-237
ParseErrorStatus(analysis) ==
    IF Contains(Upper(analysis), NO_ERRORS) /\ ~Contains(Upper(analysis), ERRORS_FOUND)
    THEN NoErrorsDetected
    ELSE ErrorsFound

\* the character U+0060, which a TLA+ string cannot hold
Backtick == "<backtick>"

\* three backticks
Fence == <<Backtick, Backtick, Backtick>>

NewlineFence == <<"\n">> \o Fence

\* line 241: the pattern fence [\w]*\n(.*?)\n fence with re.DOTALL, tried at index i.  After
\* the fence the greedy [\w]* can only end where the word characters end, since
\* the newline that must follow is no word character; the lazy (.*?) ends at
\* the first newline-and-fence from there on, and under DOTALL it runs across
\* lines.
CodeMatchAt(s, i) ==
    IF ~StartsAt(s, i, Fence) THEN NoMatch
    ELSE LET j == RunEnd(s, i + 3, WordChars)
         IN  IF ~StartsAt(s, j, <<"\n">>) THEN NoMatch
             ELSE LET k == FindFrom(s, j + 1, NewlineFence)
                  IN  IF k = 0 THEN NoMatch ELSE Match(SubSeq(s, j + 1, k - 1))

\* line 241: re.search returns the match at the leftmost index that has one
SearchCode(s) ==
    LET at == {i \in 1..Len(s) : CodeMatchAt(s, i).matched}
    IN  IF at = {} THEN NoMatch ELSE CodeMatchAt(s, SetMin(at))

NoCorrection ==
    <<"n", "o", " ", "c", "o", "r", "r", "e", "c", "t", "i", "o", "n">>

\* line 245
CodeIsClean ==
    <<"N", "o", " ", "c", "o", "r", "r", "e", "c", "t", "i", "o", "n", "s", " ", "n",
      "e", "e", "d", "e", "d", " ", "-", " ", "c", "o", "d", "e", " ", "i", "s", " ",
      "c", "l", "e", "a", "n", "!">>

\* line 247
NoCorrectionsNeeded ==
    <<"N", "o", " ", "c", "o", "r", "r", "e", "c", "t", "i", "o", "n", "s", " ", "n",
      "e", "e", "d", "e", "d">>

\* an extraction that returns the group as matched
ExtractVerbatim(analysis) ==
    LET m == SearchCode(analysis)
    IN  IF m.matched THEN m.group ELSE NoCorrectionsNeeded

\* lines 240-247
ExtractCorrectedCode(analysis) ==
    LET m == SearchCode(analysis)
    IN  IF m.matched
        THEN LET corrected_code == Strip(m.group)
             IN  IF Contains(Lower(corrected_code), NoCorrection)
                 THEN CodeIsClean
                 ELSE corrected_code
        ELSE NoCorrectionsNeeded

TIME_COMPLEXITY ==
    <<"T", "I", "M", "E", " ", "C", "O", "M", "P", "L", "E", "X", "I", "T", "Y">>

SPACE_COMPLEXITY ==
    <<"S", "P", "A", "C", "E", " ", "C", "O", "M", "P", "L", "E", "X", "I", "T", "Y">>

\* line 250, 251
NotAnalyzed ==
    <<"N", "o", "t", " ", "a", "n", "a", "l", "y", "z", "e", "d">>

\* lines 253, 257: keyword[:\s]+O\(([^)]+)\) with re.IGNORECASE, tried at index
\* i of s, whose upper-cased form is u.  The greedy [:\s]+ can only end where
\* the colons and whitespace end, since the O that must follow is neither; the
\* greedy [^)]+ runs, across lines, to the first closing parenthesis.
ComplexityMatchAt(s, u, i, keyword) ==
    IF ~StartsAt(u, i, keyword) THEN NoMatch
    ELSE LET j == RunEnd(s, i + Len(keyword), {":"} \cup Whitespace)
             k == RunEndNot(s, j + 2, {")"})
         IN  IF /\ j > i + Len(keyword)
                /\ StartsAt(u, j, <<"O", "(">>)
                /\ k > j + 2
                /\ k <= Len(s)
             THEN Match(SubSeq(s, j + 2, k - 1))
             ELSE NoMatch

\* a search that returns the last match
SearchComplexityLast(s, keyword) ==
    LET u == Upper(s)
        at == {i \in 1..Len(s) : ComplexityMatchAt(s, u, i, keyword).matched}
    IN  IF at = {} THEN NoMatch ELSE ComplexityMatchAt(s, u, SetMax(at), keyword)

\* lines 253, 257: re.search returns the match at the leftmost index that has one
SearchComplexity(s, keyword) ==
    LET u == Upper(s)
        at == {i \in 1..Len(s) : ComplexityMatchAt(s, u, i, keyword).matched}
    IN  IF at = {} THEN NoMatch ELSE ComplexityMatchAt(s, u, SetMin(at), keyword)

\* lines 250-259: f"O({match.group(1).strip()})", or the placeholder
ExtractComplexity(analysis, keyword) ==
    LET m == SearchComplexity(analysis, keyword)
    IN  IF m.matched THEN <<"O", "(">> \o Strip(m.group) \o <<")">> ELSE NotAnalyzed

\* the emoji of line 261
Stopwatch == "<stopwatch>"

FloppyDisk == "<floppy disk>"

\* line 261: the f-string with its two interpolated values
ComplexityDisplay(time_complexity, space_complexity) ==
    <<Stopwatch, " Time: ", time_complexity, "  |  ", FloppyDisk, " Space: ", space_complexity>>

----------------------------------------------------------------------------
(* The credential store, signup, login and logout, src/codeeee.py:23-90 *)

\* line 55: the shortest password signup accepts
MinPasswordLength == 6

\* the users file: absent, a JSON document, or the beginning of one.  A
\* document is the sequence of its members, each a key and a record.
NoFile == [state |-> "absent", doc |-> << >>]

JsonFile(doc) == [state |-> "json", doc |-> doc]

TruncatedFile == [state |-> "truncated", doc |-> << >>]

\* the keys of a mapping in the order the mapping is written
KeyOrder(db) ==
    CHOOSE s \in [1..Cardinality(DOMAIN db) -> DOMAIN db] :
        \A u \in DOMAIN db : \E i \in 1..Cardinality(DOMAIN db) : s[i] = u

\* line 43: json.dump(users_db, f, indent=2), one member per key
JsonDump(db) ==
    [i \in 1..Cardinality(DOMAIN db) |-> <<KeyOrder(db)[i], db[KeyOrder(db)[i]]>>]

\* line 30: json.load(f); of two members with one key the later one counts
JsonLoad(doc) ==
    [u \in {doc[i][1] : i \in 1..Len(doc)} |->
        doc[SetMax({i \in 1..Len(doc) : doc[i][1] = u})][2]]

\* lines 25-32: the mapping the module starts with
LoadUsers(file) ==
    IF file.state = "json" THEN JsonLoad(file.doc) ELSE << >>

\* what the file system does when save_users opens and writes the file
SaveOutcomes == {"ok", "OSError", "ENOSPC"}

\* lines 39-45: the file after save_users().  When open() fails the file is
\* as it was, when the write fails after open() truncated it only a beginning
\* of the document is there; either error is printed and not raised.
SaveUsers(db, file, save) ==
    IF save = "ok" THEN JsonFile(JsonDump(db))
    ELSE IF save = "ENOSPC" THEN TruncatedFile
    ELSE file

\* lines 61-65
NewRecord(password) ==
    [password |-> password, created_at |-> Timestamp, analyses_count |-> 0]

\* gr.update(visible=...) and the None a handler returns for a component
Visible == "visible"

Hidden == "hidden"

\* lines 50-68: the pair signup returns
SignupReturn(msg, main_page) == [msg |-> msg, main_page |-> main_page]

CredentialsRequired == <<CrossMark, "Username and password are required!">>

PasswordsDoNotMatch == <<CrossMark, "Passwords do not match!">>

PasswordTooShort == <<CrossMark, "Password must be at least 6 characters!">>

UsernameExists == <<CrossMark, "Username already exists! Please login.">>

AccountCreated(username) ==
    <<CheckMark, "Account created successfully! Welcome ", username, "!">>

\* a signup that does not look for the username in the store
SignupOverwrites(username, password, confirm_password, save) ==
    [ret |-> SignupReturn(AccountCreated(username), Visible),
     users_db |-> [u \in DOMAIN users_db \cup {username} |->
                      IF u = username THEN NewRecord(password) ELSE users_db[u]],
     users_file |-> users_file]

\* lines 47-68: what signup(username, password, confirm_password) returns and
\* the store and the file it leaves behind
SignupResult(username, password, confirm_password, save) ==
    LET rejected(msg) == [ret |-> SignupReturn(msg, None),
                          users_db |-> users_db, users_file |-> users_file]
    IN  IF username = "" \/ password = << >>
        THEN rejected(CredentialsRequired)
        ELSE IF password # confirm_password
        THEN rejected(PasswordsDoNotMatch)
        ELSE IF Len(password) < MinPasswordLength
        THEN rejected(PasswordTooShort)
        ELSE IF username \in DOMAIN users_db
        THEN rejected(UsernameExists)
        ELSE LET db == [u \in DOMAIN users_db \cup {username} |->
                           IF u = username THEN NewRecord(password) ELSE users_db[u]]
             IN  [ret |-> SignupReturn(AccountCreated(username), Visible),
                  users_db |-> db,
                  users_file |-> SaveUsers(db, users_file, save)]

\* lines 75-84: the triple login returns
LoginReturn(msg, main_page, auth_page) ==
    [msg |-> msg, main_page |-> main_page, auth_page |-> auth_page]

UserNotFound == <<CrossMark, "User not found! Please signup first.">>

IncorrectPassword == <<CrossMark, "Incorrect password!">>

WelcomeBack(username) == <<CheckMark, "Welcome back, ", username, "!">>

\* a login that reports every failure as an unknown user
LoginNotFoundOnly(username, password) ==
    IF username \in DOMAIN users_db /\ password # << >>
       /\ users_db[username].password = password
    THEN [ret |-> LoginReturn(WelcomeBack(username), Visible, Hidden),
          current_user |-> username]
    ELSE [ret |-> LoginReturn(UserNotFound, None, None), current_user |-> current_user]

\* a login that does not compare the password
LoginUnchecked(username, password) ==
    IF username = "" \/ password = << >>
    THEN [ret |-> LoginReturn(CredentialsRequired, None, None), current_user |-> current_user]
    ELSE [ret |-> LoginReturn(WelcomeBack(username), Visible, Hidden),
          current_user |-> username]

\* lines 70-84: what login(username, password) returns and the current user
\* it leaves behind
LoginResult(username, password) ==
    LET rejected(msg) == [ret |-> LoginReturn(msg, None, None),
                          current_user |-> current_user]
    IN  IF username = "" \/ password = << >>
        THEN rejected(CredentialsRequired)
        ELSE IF username \notin DOMAIN users_db
        THEN rejected(UserNotFound)
        ELSE IF users_db[username].password # password
        THEN rejected(IncorrectPassword)
        ELSE [ret |-> LoginReturn(WelcomeBack(username), Visible, Hidden),
              current_user |-> username]

\* the Sign Up button, lines 733-737
Signup(username, password, confirm_password, save) ==
    LET r == SignupResult(username, password, confirm_password, save)
    IN  /\ last_op' = "signup"
        /\ auth_call' = [op |-> "signup", username |-> username, password |-> password,
                         confirm_password |-> confirm_password]
        /\ auth_ret' = r.ret
        /\ users_db' = r.users_db
        /\ users_file' = r.users_file
        /\ page' = [page EXCEPT !.main_page = Shown(r.ret.main_page, @)]
        /\ IdleRun
        /\ IdleAnalyze
        /\ UNCHANGED <<current_user, client, GROQ_AVAILABLE, model_reply, an_thread>>

\* the Login button, lines 727-731
Login(username, password) ==
    LET r == LoginResult(username, password)
    IN  /\ last_op' = "login"
        /\ auth_call' = [op |-> "login", username |-> username, password |-> password,
                         confirm_password |-> << >>]
        /\ auth_ret' = r.ret
        /\ current_user' = r.current_user
        /\ page' = [main_page |-> Shown(r.ret.main_page, page.main_page),
                    auth_page |-> Shown(r.ret.auth_page, page.auth_page)]
        /\ IdleRun
        /\ IdleAnalyze
        /\ UNCHANGED <<users_db, users_file, client, GROQ_AVAILABLE, model_reply, an_thread>>

\* the Logout button, lines 86-90 and 739-742
Logout ==
    /\ last_op' = "logout"
    /\ auth_call' = [NoAuthCall EXCEPT !.op = "logout"]
    /\ auth_ret' = [main_page |-> Hidden, auth_page |-> Visible]
    /\ current_user' = None
    /\ page' = [main_page |-> Hidden, auth_page |-> Visible]
    /\ IdleRun
    /\ IdleAnalyze
    /\ UNCHANGED <<users_db, users_file, client, GROQ_AVAILABLE, model_reply, an_thread>>

----------------------------------------------------------------------------
(* initialize_groq and analyze_code_short, src/codeeee.py:92-106, 170-274 *)

\* whether msg holds the emoji: the test `icon in init_result` of line 180
HasIcon(msg, icon) == \E i \in 1..Len(msg) : msg[i] = icon

\* what the operating system and the groq package do during one call: whether
\* Groq(api_key=...) raises, whether the users file can be opened for writing
AnalyzeEnvs == [groq : {"ok", "GroqError"}, save : SaveOutcomes]

\* lines 92-106: the message initialize_groq(api_key) returns and the client
\* it leaves behind
InitializeGroqResult(api_key, env) ==
    IF ~GROQ_AVAILABLE
    THEN [msg |-> <<CrossMark, "Error: Groq SDK not installed. Run: pip install groq">>,
          client |-> client]
    ELSE IF api_key = << >> \/ Strip(api_key) = << >>
    THEN [msg |-> <<WarningSign, "Please enter a valid API key">>, client |-> client]
    ELSE IF env.groq # "ok"
    THEN [msg |-> <<CrossMark, "Error: ", env.groq>>, client |-> client]
    ELSE [msg |-> <<CheckMark, "API Key configured successfully!">>,
          client |-> Groq(Strip(api_key))]

\* the Connect button, lines 586-590
InitializeGroq(api_key, env) ==
    LET r == InitializeGroqResult(api_key, env)
    IN  /\ last_op' = "initialize_groq"
        /\ an_call' = [NoCall EXCEPT !.api_key = api_key]
        /\ an_ret' = Return(r.msg)
        /\ an_obs' = [completion_calls |-> 0]
        /\ client' = r.client
        /\ IdleRun
        /\ IdleAuth
        /\ UNCHANGED <<users_db, users_file, current_user, GROQ_AVAILABLE, model_reply,
                       an_thread, page>>

\* the five values analyze_code_short returns
Fields(analysis, error_status, corrected_code, complexity_display, status_display) ==
    [analysis |-> analysis,
     error_status |-> error_status,
     corrected_code |-> corrected_code,
     complexity_display |-> complexity_display,
     status_display |-> status_display]

\* line 175
LoginRequired ==
    Fields(<<WarningSign, "Please login first!">>, <<WarningSign, "Login Required">>,
           << >>, << >>, <<WarningSign, "Login Required">>)

\* line 181
InitFailed(init_result) ==
    Fields(init_result, <<WarningSign, "API Key Required">>,
           << >>, << >>, <<WarningSign, "Configure API Key">>)

\* line 184
ApiKeyRequired ==
    Fields(<<WarningSign, "Please set your Groq API key first!">>,
           <<WarningSign, "API Key Required">>,
           << >>, << >>, <<WarningSign, "Configure API Key">>)

\* line 187
CodeRequired ==
    Fields(<<WarningSign, "Please enter code to analyze!">>, <<WarningSign, "No Code">>,
           << >>, << >>, <<WarningSign, "Code Required">>)

\* a failure display that does not show the error
AnalysisFailedSilently(e) ==
    Fields(<<CrossMark, "Error: ", "analysis failed">>, <<CrossMark, "ANALYSIS FAILED">>,
           << >>, << >>, <<CrossMark, "Failed">>)

\* line 274
AnalysisFailed(e) ==
    Fields(<<CrossMark, "Error: ", e>>, <<CrossMark, "ANALYSIS FAILED">>,
           << >>, << >>, <<CrossMark, "Failed: ", e>>)

\* lines 233-271: the values returned for the reply text analysis
Completed(analysis) ==
    Fields(analysis,
           IF ParseErrorStatus(analysis) = NoErrorsDetected
               THEN <<CheckMark, NoErrorsDetected>>
               ELSE <<CrossMark, ErrorsFound>>,
           ExtractCorrectedCode(analysis),
           ComplexityDisplay(ExtractComplexity(analysis, TIME_COMPLEXITY),
                             ExtractComplexity(analysis, SPACE_COMPLEXITY)),
           <<CheckMark, "Completed at ", Timestamp>>)

\* an except clause that lets everything but the API's own errors through
ExceptApiErrorsOnly(outcome) ==
    IF outcome.kind = "raise" /\ outcome.exc \in {"APIConnectionError", "AuthenticationError"}
    THEN Return(AnalysisFailed(outcome.exc))
    ELSE outcome

\* lines 273-274: except Exception as e
ExceptException(outcome) ==
    IF outcome.kind = "raise" THEN Return(AnalysisFailed(outcome.exc)) ELSE outcome

\* lines 221-231: client.chat.completions.create(...) and the reply's content.
\* The call raises the API's error; a reply whose content is None makes
\* analysis.upper() of line 234 raise.
Completion ==
    IF model_reply.kind = "error" THEN Raise(model_reply.exc)
    ELSE IF model_reply.kind = "null" THEN Raise("AttributeError")
    ELSE Return(model_reply.content)

\* a count that is added to every record
CountEveryUser ==
    [u \in DOMAIN users_db |-> [users_db[u] EXCEPT !.analyses_count = @ + 1]]

\* lines 264-265: the mapping with the current user's count incremented
CountAnalysis ==
    IF current_user \in DOMAIN users_db
    THEN [users_db EXCEPT ![current_user].analyses_count = @ + 1]
    ELSE users_db

\* lines 39-45, 266: save_users() writes the whole mapping, and only prints
\* the error when the file cannot be opened
SavedFile(db, env) ==
    IF current_user \in DOMAIN users_db THEN SaveUsers(db, users_file, env.save) ELSE users_file

\* an analysis without the login guard of line 174
AnalyzeWithoutLogin(code, language, api_key, env) ==
    LET same(outcome, calls) ==
            [outcome |-> outcome, client |-> client, users_db |-> users_db,
             users_file |-> users_file, calls |-> calls]
    IN  IF client = NoClient THEN same(Return(ApiKeyRequired), 0)
        ELSE IF IsBlank(code) THEN same(Return(CodeRequired), 0)
        ELSE IF Completion.kind = "raise" THEN same(ExceptException(Completion), 1)
        ELSE same(Return(Completed(Completion.val)), 1)

\* an analysis that builds a client from every api_key it is given, without
\* the `not client` of line 178
AnalyzeReinitializes(code, language, api_key, env) ==
    LET same(outcome, cl, calls) ==
            [outcome |-> outcome, client |-> cl, users_db |-> users_db,
             users_file |-> users_file, calls |-> calls]
        initialize == api_key # << >>
        init == IF initialize
                THEN InitializeGroqResult(api_key, env)
                ELSE [msg |-> << >>, client |-> client]
        reply == Completion
    IN  IF current_user = None
        THEN same(Return(LoginRequired), client, 0)
        ELSE IF initialize /\ (HasIcon(init.msg, CrossMark) \/ HasIcon(init.msg, WarningSign))
        THEN same(Return(InitFailed(init.msg)), init.client, 0)
        ELSE IF init.client = NoClient
        THEN same(Return(ApiKeyRequired), init.client, 0)
        ELSE IF IsBlank(code)
        THEN same(Return(CodeRequired), init.client, 0)
        ELSE IF reply.kind = "raise"
        THEN same(ExceptException(reply), init.client, 1)
        ELSE [outcome |-> ExceptException(Return(Completed(reply.val))),
              client |-> init.client,
              users_db |-> CountAnalysis,
              users_file |-> SavedFile(CountAnalysis, env),
              calls |-> 1]

\* lines 170-274: the outcome of analyze_code_short(code, language, api_key)
\* and the state it leaves behind
AnalyzeCodeShortResult(code, language, api_key, env) ==
    LET same(outcome, cl, calls) ==
            [outcome |-> outcome, client |-> cl, users_db |-> users_db,
             users_file |-> users_file, calls |-> calls]
        initialize == client = NoClient /\ api_key # << >>
        init == IF initialize
                THEN InitializeGroqResult(api_key, env)
                ELSE [msg |-> << >>, client |-> client]
        reply == Completion
    IN  IF current_user = None
        THEN same(Return(LoginRequired), client, 0)
        ELSE IF initialize /\ (HasIcon(init.msg, CrossMark) \/ HasIcon(init.msg, WarningSign))
        THEN same(Return(InitFailed(init.msg)), init.client, 0)
        ELSE IF init.client = NoClient
        THEN same(Return(ApiKeyRequired), init.client, 0)
        ELSE IF IsBlank(code)
        THEN same(Return(CodeRequired), init.client, 0)
        ELSE IF reply.kind = "raise"
        THEN same(ExceptException(reply), init.client, 1)
        ELSE [outcome |-> ExceptException(Return(Completed(reply.val))),
              client |-> init.client,
              users_db |-> CountAnalysis,
              users_file |-> SavedFile(CountAnalysis, env),
              calls |-> 1]

\* the Analyze button, lines 697-701
AnalyzeCodeShort(code, language, api_key, env) ==
    LET r == AnalyzeCodeShortResult(code, language, api_key, env)
    IN  /\ \A u \in DOMAIN r.users_db : r.users_db[u].analyses_count <= MaxAnalyses
        /\ last_op' = "analyze_code_short"
        /\ an_call' = [code |-> code, language |-> language, api_key |-> api_key]
        /\ an_ret' = r.outcome
        /\ an_obs' = [completion_calls |-> r.calls]
        /\ client' = r.client
        /\ users_db' = r.users_db
        /\ users_file' = r.users_file
        /\ IdleRun
        /\ IdleAuth
        /\ UNCHANGED <<current_user, GROQ_AVAILABLE, model_reply, an_thread, page>>

\* a count that goes to the user who was logged in when the call began
CountForStarter ==
    IF an_thread.started_by \in DOMAIN users_db
    THEN [users_db EXCEPT ![an_thread.started_by].analyses_count = @ + 1]
    ELSE users_db

\* lines 264-265, in a call that has waited for the reply
CountAfterReply == CountAnalysis

\* lines 170-231, when handlers of other sessions run during the call: the
\* guards of lines 174-187 pass and the request is sent; the call then waits
\* for the reply in its worker thread
AnalyzeBegin(code, language, api_key, env) ==
    LET r == AnalyzeCodeShortResult(code, language, api_key, env)
    IN  /\ an_thread.pc # "waiting"
        /\ r.calls = 1
        /\ last_op' = "analyze_code_short:221"
        /\ an_thread' = [pc |-> "waiting", code |-> code, language |-> language,
                         started_by |-> current_user]
        /\ client' = r.client
        /\ IdleRun
        /\ IdleAnalyze
        /\ IdleAuth
        /\ UNCHANGED <<users_db, users_file, current_user, GROQ_AVAILABLE, model_reply, page>>

\* lines 233-274 of that call: the reply arrives, is parsed, and the count of
\* whoever is the current user now is incremented and saved
AnalyzeEnd(env) ==
    LET reply == Completion
        db == IF reply.kind = "raise" THEN users_db ELSE CountAfterReply
    IN  /\ an_thread.pc = "waiting"
        /\ \A u \in DOMAIN db : db[u].analyses_count <= MaxAnalyses
        /\ last_op' = "analyze_code_short"
        /\ an_thread' = [an_thread EXCEPT !.pc = "returned"]
        /\ an_call' = [code |-> an_thread.code, language |-> an_thread.language,
                       api_key |-> << >>]
        /\ an_ret' = IF reply.kind = "raise" THEN ExceptException(reply)
                     ELSE ExceptException(Return(Completed(reply.val)))
        /\ an_obs' = [completion_calls |-> 1]
        /\ users_db' = db
        /\ users_file' = IF reply.kind = "raise" THEN users_file ELSE SavedFile(db, env)
        /\ IdleRun
        /\ IdleAuth
        /\ UNCHANGED <<current_user, client, GROQ_AVAILABLE, model_reply, page>>

\* the Analyze & Run button, lines 276-281 and 709-713: analyze_code_short,
\* then run_code on the same code, whatever the analysis returned
RunAndAnalyze(code, language, api_key, env, run_env) ==
    LET a == AnalyzeCodeShortResult(code, language, api_key, env)
        r == RunCodeResult(code, language, run_env)
    IN  /\ \A u \in DOMAIN a.users_db : a.users_db[u].analyses_count <= MaxAnalyses
        /\ last_op' = "run_and_analyze"
        /\ an_call' = [code |-> code, language |-> language, api_key |-> api_key]
        /\ an_ret' = a.outcome
        /\ an_obs' = [completion_calls |-> a.calls]
        /\ client' = a.client
        /\ users_db' = a.users_db
        /\ users_file' = a.users_file
        /\ run_call' = [code |-> code, language |-> language]
        /\ run_ret' = r.ret
        /\ run_obs' = r.obs
        /\ IdleAuth
        /\ UNCHANGED <<current_user, GROQ_AVAILABLE, model_reply, an_thread, page>>

----------------------------------------------------------------------------
(* analyze_code and generate_summary of the first prototype, src/code.py:82-164 *)

\* code.py:158: the lines of the reply that are looked at
SummaryScanLines == 10

\* code.py:161: the lines that are kept
SummaryKeepLines == 5

\* s.split('\n'): the pieces of s between its newlines, at least one
RECURSIVE Split(_)
Split(s) ==
    LET nl == {i \in 1..Len(s) : s[i] = "\n"}
    IN  IF nl = {} THEN <<s>>
        ELSE <<SubSeq(s, 1, SetMin(nl) - 1)>> \o Split(SubSeq(s, SetMin(nl) + 1, Len(s)))

\* '\n'.join(lines)
RECURSIVE Join(_)
Join(lines) ==
    IF lines = << >> THEN << >>
    ELSE IF Len(lines) = 1 THEN lines[1]
    ELSE lines[1] \o <<"\n">> \o Join(Tail(lines))

\* s.startswith(prefix)
StartsWith(s, prefix) == StartsAt(s, 1, prefix)

\* a slice that takes every line
AllLines(lines) == lines

\* code.py:158: lines[:10]
FirstLines(lines) ==
    SubSeq(lines, 1, IF Len(lines) < SummaryScanLines THEN Len(lines) ELSE SummaryScanLines)

\* code.py:158-162: the loop over lines from index i on, summary_lines so far
RECURSIVE SummaryLoop(_, _, _)
SummaryLoop(lines, i, summary_lines) ==
    IF i > Len(lines) THEN summary_lines
    ELSE IF Strip(lines[i]) # << >> /\ ~StartsWith(Strip(lines[i]), Fence)
    THEN IF Len(summary_lines) + 1 >= SummaryKeepLines
         THEN Append(summary_lines, lines[i])
         ELSE SummaryLoop(lines, i + 1, Append(summary_lines, lines[i]))
    ELSE SummaryLoop(lines, i + 1, summary_lines)

\* code.py:164
SeeFullAnalysis ==
    <<"\n", "\n", ".", ".", ".", "(", "S", "e", "e", " ", "f", "u", "l", "l", " ", "a",
      "n", "a", "l", "y", "s", "i", "s", " ", "a", "b", "o", "v", "e", ")">>

\* code.py:153-164
generate_summary(analysis) ==
    Join(SummaryLoop(FirstLines(Split(analysis)), 1, << >>)) \o SeeFullAnalysis

\* code.py:82-89: the client initialize_groq(api_key) leaves behind; it has no
\* test of the key of its own
InitializeGroqClient(api_key, env) ==
    IF env.groq # "ok" THEN client ELSE Groq(api_key)

\* the three values analyze_code returns
Outputs(analysis, summary, status) ==
    [analysis |-> analysis, summary |-> summary, status |-> status]

\* code.py:91-151: the outcome of analyze_code(code, workflow_type, language,
\* custom_prompt, api_key) and the client it leaves behind.  A reply whose
\* content is None makes analysis.split of line 155 raise inside the try.
AnalyzeCodeResult(code, api_key, env) ==
    LET cl == IF client = NoClient /\ api_key # << >>
              THEN InitializeGroqClient(api_key, env)
              ELSE client
        reply == Completion
    IN  IF cl = NoClient
        THEN [outcome |-> Return(Outputs(<<WarningSign, "Please set your Groq API key first!">>,
                                         << >>, << >>)),
              client |-> cl, calls |-> 0]
        ELSE IF IsBlank(code)
        THEN [outcome |-> Return(Outputs(<<WarningSign, "Please enter code to analyze!">>,
                                         << >>, << >>)),
              client |-> cl, calls |-> 0]
        ELSE IF reply.kind = "raise"
        THEN [outcome |-> Return(Outputs(<<CrossMark, "Error during analysis: ", reply.exc>>,
                                         << >>, << >>)),
              client |-> cl, calls |-> 1]
        ELSE [outcome |-> Return(Outputs(reply.val, generate_summary(reply.val),
                                         <<"Analysis completed at ", Timestamp>>)),
              client |-> cl, calls |-> 1]

\* the Analyze button of the first prototype
AnalyzeCode(code, workflow_type, language, custom_prompt, api_key, env) ==
    LET r == AnalyzeCodeResult(code, api_key, env)
    IN  /\ last_op' = "analyze_code"
        /\ an_call' = [code |-> code, workflow_type |-> workflow_type, language |-> language,
                       custom_prompt |-> custom_prompt, api_key |-> api_key]
        /\ an_ret' = r.outcome
        /\ an_obs' = [completion_calls |-> r.calls]
        /\ client' = r.client
        /\ IdleRun
        /\ IdleAuth
        /\ UNCHANGED <<users_db, users_file, current_user, GROQ_AVAILABLE, model_reply, an_thread, page>>

----------------------------------------------------------------------------
(* The replies of the model *)

\* Pieces of replies: the status phrases in several letter cases, fenced blocks,
\* and complexity lines as the prompt asks for them and otherwise.
FragNoErrors ==
    <<"N", "O", " ", "E", "R", "R", "O", "R", "S">>

FragNoErrorsLower ==
    <<"n", "o", " ", "e", "r", "r", "o", "r", "s">>

FragNoErrorsFound ==
    <<"N", "O", " ", "E", "R", "R", "O", "R", "S", " ", "F", "O", "U", "N", "D">>

FragErrorsFoundMixed ==
    <<"E", "r", "r", "o", "r", "s", " ", "f", "o", "u", "n", "d">>

FragBlockPy ==
    <<Backtick, Backtick, Backtick, "p", "y", "\n", " ", "x", " ", "\n", Backtick, Backtick, Backtick>>

FragBlockNoCorrection ==
    <<Backtick, Backtick, Backtick, "\n", "N", "o", " ", "C", "o", "r", "r", "e", "c", "t", "i", "o",
      "n", "\n", Backtick, Backtick, Backtick>>

FragBlockCpp ==
    <<Backtick, Backtick, Backtick, "c", "+", "+", "\n", "y", "\n", Backtick, Backtick, Backtick>>

FragNewline ==
    <<"\n">>

FragTime ==
    <<"T", "I", "M", "E", " ", "C", "O", "M", "P", "L", "E", "X", "I", "T", "Y", ":",
      " ", "O", "(", "n", ")">>

FragTimeMixed ==
    <<"T", "i", "m", "e", " ", "C", "o", "m", "p", "l", "e", "x", "i", "t", "y", " ",
      ":", "\t", "O", "(", "n", "*", "n", ")">>

FragSpaceMixed ==
    <<"S", "p", "a", "c", "e", " ", "c", "o", "m", "p", "l", "e", "x", "i", "t", "y",
      ":", "\n", "O", "(", " ", "1", " ", ")">>

FragPromptFormat ==
    <<"*", "*", "T", "I", "M", "E", " ", "C", "O", "M", "P", "L", "E", "X", "I", "T",
      "Y", ":", "*", "*", " ", "O", "(", "n", ")", "\n", "*", "*", "S", "P", "A", "C",
      "E", " ", "C", "O", "M", "P", "L", "E", "X", "I", "T", "Y", ":", "*", "*", " ",
      "O", "(", "1", ")">>

ReplyFrags ==
    {FragNoErrors, FragNoErrorsLower, FragNoErrorsFound,
     FragErrorsFoundMixed, FragBlockPy, FragBlockNoCorrection,
     FragBlockCpp, FragNewline, FragTime,
     FragTimeMixed, FragSpaceMixed, FragPromptFormat}

\* the concatenations of at most n fragments
RECURSIVE Concats(_)
Concats(n) ==
    IF n = 0 THEN {<< >>}
    ELSE Concats(n - 1) \cup {r \o f : r \in Concats(n - 1), f \in ReplyFrags}

TextReplies == {[kind |-> "text", content |-> c, exc |-> "none"] : c \in Concats(MaxFrags)}

\* Pieces of replies for the summary: text lines, blank and whitespace-only
\* lines, a fenced block with an indented closing fence, an indented line, and
\* a line without its newline.
LinesAbc ==
    <<"a", "\n", "b", "\n", "c", "\n">>

LinesBlank ==
    <<"\n", " ", "\n", "\n", "\t", "\n">>

LinesFenced ==
    <<Backtick, Backtick, Backtick, "p", "y", "\n", "x", "\n", " ", " ", Backtick, Backtick, Backtick, "\n">>

LinesIndented ==
    <<" ", "d", "\n">>

LineOpen ==
    <<"e">>

SummaryFrags == {LinesAbc, LinesBlank, LinesFenced, LinesIndented, LineOpen}

\* the concatenations of at most n of these
RECURSIVE SummaryConcats(_)
SummaryConcats(n) ==
    IF n = 0 THEN {<< >>}
    ELSE SummaryConcats(n - 1)
         \cup {r \o f : r \in SummaryConcats(n - 1), f \in SummaryFrags}

SummaryReplies ==
    {[kind |-> "text", content |-> c, exc |-> "none"] : c \in SummaryConcats(MaxBlocks)}

\* a reply without content, and the errors of the call
FailedReplies ==
    {[kind |-> "null", content |-> << >>, exc |-> "none"]}
    \cup {[kind |-> "error", content |-> << >>, exc |-> e] :
            e \in {"APIConnectionError", "AuthenticationError"}}

----------------------------------------------------------------------------
(* Specifications *)

\* lines 23-37: the state after the module is loaded with no users file
Init ==
    /\ users_db = << >>
    /\ users_file = NoFile
    /\ current_user = None
    /\ client = NoClient
    /\ GROQ_AVAILABLE = TRUE
    /\ model_reply = [kind |-> "error", content |-> << >>, exc |-> "APIConnectionError"]
    /\ last_op = "init"
    /\ InitRun
    /\ InitAnalyze
    /\ InitAuth

NextRun == RunCode

\* the Run button alone
SpecRun == Init /\ [][NextRun]_vars

\* a password signup accepts
Secret1 == <<"s", "e", "c", "r", "e", "t", "1">>

\* lines 61-65: the record signup stores
Alice == NewRecord(Secret1)

\* a session in which alice has signed up and logged in and the API key is
\* configured, with any reply of the model
InitParse ==
    /\ users_db = [u \in {"alice"} |-> Alice]
    /\ users_file = JsonFile(JsonDump(users_db))
    /\ current_user = "alice"
    /\ client = Groq(<<"k">>)
    /\ GROQ_AVAILABLE = TRUE
    /\ model_reply \in TextReplies \cup FailedReplies
    /\ last_op = "init"
    /\ InitRun
    /\ InitAnalyze
    /\ InitAuth

NextParse ==
    \E code \in {<<"p">>} :
        AnalyzeCodeShort(code, "Python", << >>, [groq |-> "ok", save |-> "ok"])

\* the Analyze button in that session
SpecParse == InitParse /\ [][NextParse]_vars

\* the first prototype with its client configured, and any reply of the model
InitSummary ==
    /\ users_db = << >>
    /\ users_file = NoFile
    /\ current_user = None
    /\ client = Groq(<<"k">>)
    /\ GROQ_AVAILABLE = TRUE
    /\ model_reply \in SummaryReplies \cup FailedReplies
    /\ last_op = "init"
    /\ InitRun
    /\ InitAnalyze
    /\ InitAuth

NextSummary ==
    \E code \in {<< >>, <<"p">>} :
        AnalyzeCode(code, "Quick Debug", "Python", << >>, << >>, [groq |-> "ok", save |-> "ok"])

\* the Analyze button of the first prototype
SpecSummary == InitSummary /\ [][NextSummary]_vars

----------------------------------------------------------------------------
(* One browser session: every handler of src/codeeee.py, and restarts *)

Usernames == {"", "alice", "bob"}

\* a password of five characters, one less than signup accepts
Short5 == <<"s", "e", "c", "r", "e">>

\* a second password signup accepts, of exactly six characters
Secret == <<"s", "e", "c", "r", "e", "t">>

Passwords == {<< >>, Short5, Secret, Secret1}

\* the API keys typed into the key field: none, blanks, a key
ApiKeys == {<< >>, <<" ">>, <<"k">>}

\* the replies of the model in a session: a reply with text, one without
\* content, and the errors of the call
SessionReplies ==
    {[kind |-> "text", content |-> FragNoErrors, exc |-> "none"]}
    \cup FailedReplies

\* lines 23-37: the process is stopped and started again; the module state is
\* built anew from the users file
Restart ==
    /\ last_op' = "start"
    /\ users_db' = LoadUsers(users_file)
    /\ client' = NoClient
    /\ current_user' = None
    /\ IdleRun
    /\ IdleAnalyze
    /\ IdleAuth
    /\ an_thread' = NoThread
    /\ page' = InitialPage
    /\ UNCHANGED <<users_file, GROQ_AVAILABLE, model_reply>>

\* the confirmations typed with a password: the same, and another one
Confirmations(password) == {password, Secret}

\* lines 23-37: a process started without a users file
InitAuthOnly ==
    /\ users_db = LoadUsers(NoFile)
    /\ users_file = NoFile
    /\ current_user = None
    /\ client = NoClient
    /\ GROQ_AVAILABLE = TRUE
    /\ model_reply = [kind |-> "error", content |-> << >>, exc |-> "APIConnectionError"]
    /\ last_op = "init"
    /\ InitRun
    /\ InitAnalyze
    /\ InitAuth

NextAuth ==
    \/ \E username \in Usernames, password \in Passwords, save \in SaveOutcomes :
          \E confirm_password \in Confirmations(password) :
              Signup(username, password, confirm_password, save)
    \/ \E username \in Usernames, password \in Passwords : Login(username, password)
    \/ Logout
    \/ Restart

\* the authentication page: signup, login and logout over the users file
SpecAuth == InitAuthOnly /\ [][NextAuth]_vars

\* a process started without a users file, and any reply of the model
InitSession ==
    /\ users_db = LoadUsers(NoFile)
    /\ users_file = NoFile
    /\ current_user = None
    /\ client = NoClient
    /\ GROQ_AVAILABLE = TRUE
    /\ model_reply \in SessionReplies
    /\ last_op = "init"
    /\ InitRun
    /\ InitAnalyze
    /\ InitAuth

\* a run of the submitted code that succeeds
RunsFine ==
    [create |-> "ok", write |-> "ok", proc |-> "exit0", stdout |-> "out", stderr |-> "",
     child_unlinks |-> FALSE]

NextSession ==
    \/ \E username \in Usernames, password \in Passwords :
          \E confirm_password \in Confirmations(password) :
              Signup(username, password, confirm_password, "ok")
    \/ \E username \in Usernames, password \in Passwords : Login(username, password)
    \/ Logout
    \/ \E code \in {<< >>, <<"p">>}, api_key \in ApiKeys, groq \in {"ok", "GroqError"} :
          AnalyzeCodeShort(code, "Python", api_key, [groq |-> groq, save |-> "ok"])
    \/ \E code \in {<< >>, <<"p">>} : RunCodeWith(code, "Python", RunsFine)

\* every handler of one process, called one at a time, on a disk that can be
\* written
SpecSession == InitSession /\ [][NextSession]_vars

\* a process started without a users file; the model replies with text
InitStore ==
    /\ users_db = LoadUsers(NoFile)
    /\ users_file = NoFile
    /\ current_user = None
    /\ client = NoClient
    /\ GROQ_AVAILABLE = TRUE
    /\ model_reply = [kind |-> "text", content |-> FragNoErrors,
                      exc |-> "none"]
    /\ last_op = "init"
    /\ InitRun
    /\ InitAnalyze
    /\ InitAuth

NextStore ==
    \/ \E username \in {"alice", "bob"}, save \in SaveOutcomes :
          Signup(username, Secret1, Secret1, save)
    \/ \E username \in {"alice", "bob"} : Login(username, Secret1)
    \/ \E save \in SaveOutcomes :
          AnalyzeCodeShort(<<"p">>, "Python", <<"k">>, [groq |-> "ok", save |-> save])
    \/ Restart

\* signups, analyses and restarts over a users file whose writes can fail
SpecStore == InitStore /\ [][NextStore]_vars

\* alice and bob have signed up and the API key is configured; nobody is
\* logged in
InitConcurrent ==
    /\ users_db = [u \in {"alice", "bob"} |-> NewRecord(Secret1)]
    /\ users_file = JsonFile(JsonDump(users_db))
    /\ current_user = None
    /\ client = Groq(<<"k">>)
    /\ GROQ_AVAILABLE = TRUE
    /\ model_reply \in SessionReplies
    /\ last_op = "init"
    /\ InitRun
    /\ InitAnalyze
    /\ InitAuth

NextConcurrent ==
    \/ \E username \in {"alice", "bob"}, password \in {Secret, Secret1} :
          Login(username, password)
    \/ Logout
    \/ AnalyzeBegin(<<"p">>, "Python", << >>, [groq |-> "ok", save |-> "ok"])
    \/ AnalyzeEnd([groq |-> "ok", save |-> "ok"])

\* two browser sessions of one process: one analysis waits for its reply
\* while the login and logout handlers of the other session run
SpecConcurrent == InitConcurrent /\ [][NextConcurrent]_vars

\* the buttons of one browser: those of auth_page (lines 524-554) can be
\* clicked while it is shown, those of main_page (lines 556-723) while it is
\* shown
NextUI ==
    \/ /\ page.auth_page = Visible
       /\ \E username \in {"alice", "bob"}, password \in {Short5, Secret1} :
             Signup(username, password, password, "ok")
    \/ /\ page.auth_page = Visible
       /\ \E username \in {"alice", "bob"}, password \in {Secret, Secret1} :
             Login(username, password)
    \/ /\ page.main_page = Visible
       /\ Logout
    \/ /\ page.main_page = Visible
       /\ \E code \in {<< >>, <<"p">>} : RunCodeWith(code, "Python", RunsFine)
    \/ /\ page.main_page = Visible
       /\ \E code \in {<< >>, <<"p">>}, api_key \in {<< >>, <<"k">>} :
             AnalyzeCodeShort(code, "Python", api_key, [groq |-> "ok", save |-> "ok"])
    \/ /\ page.main_page = Visible
       /\ \E code \in {<< >>, <<"p">>}, api_key \in {<< >>, <<"k">>} :
             RunAndAnalyze(code, "Python", api_key, [groq |-> "ok", save |-> "ok"],
                           RunsFine)

\* one browser session on a process started without a users file
SpecUI == InitSession /\ [][NextUI]_vars

\* the keys typed into the API key box: none, a blank one, and two keys
ClientKeys == {<< >>, <<" ">>, <<"k">>, <<" ", "j">>}

\* alice and bob have signed up; no client is configured, and the groq
\* package may or may not be installed
InitClient ==
    /\ users_db = [u \in {"alice", "bob"} |-> NewRecord(Secret1)]
    /\ users_file = JsonFile(JsonDump(users_db))
    /\ current_user = None
    /\ client = NoClient
    /\ GROQ_AVAILABLE \in BOOLEAN
    /\ model_reply \in SessionReplies
    /\ last_op = "init"
    /\ InitRun
    /\ InitAnalyze
    /\ InitAuth

NextClient ==
    \/ \E username \in {"alice", "bob"} : Login(username, Secret1)
    \/ Logout
    \/ \E api_key \in ClientKeys, groq \in {"ok", "GroqError"} :
          InitializeGroq(api_key, [groq |-> groq, save |-> "ok"])
    \/ \E code \in {<< >>, <<"p">>}, api_key \in ClientKeys, groq \in {"ok", "GroqError"} :
          AnalyzeCodeShort(code, "Python", api_key, [groq |-> groq, save |-> "ok"])

\* the Connect button and the analyses of users who log in one after another
SpecClient == InitClient /\ [][NextClient]_vars

----------------------------------------------------------------------------
(* Claims about run_code, checked under SpecRun *)

RanCode == last_op = "run_code"

HasNonWhitespace(s) == \E i \in 1..Len(s) : s[i] \notin Whitespace

NothingExecuted == ~run_obs.created /\ ~run_obs.spawned

\* C1 as stated: for any code string and any language outside {Python,
\* JavaScript}, run_code reports "not supported", creates no temporary file and
\* spawns no process.
C1_AnyCodeNotSupported ==
    (RanCode /\ run_call.language \notin {"Python", "JavaScript"})
        => (run_ret = NotSupported(run_call.language) /\ NothingExecuted)

\* C1 amended: for any code string with a non-whitespace character and any
\* language outside {Python, JavaScript}, run_code reports "not supported",
\* creates no temporary file and spawns no process.
C1_NonBlankNotSupported ==
    (RanCode /\ HasNonWhitespace(run_call.code)
            /\ run_call.language \notin {"Python", "JavaScript"})
        => (run_ret = NotSupported(run_call.language) /\ NothingExecuted)

C1_Witness ==
    /\ RanCode
    /\ run_call = [code |-> <<"p", " ">>, language |-> "Java"]
    /\ run_ret = NotSupported("Java")

\* C2: for empty or whitespace-only code and any language, run_code returns
\* "No code to run!", creates no temporary file and spawns no process.
C2_BlankCodeNothingRun ==
    (RanCode /\ ~HasNonWhitespace(run_call.code))
        => (run_ret = NoCodeToRun /\ NothingExecuted)

C2_Witness ==
    /\ RanCode
    /\ run_call = [code |-> <<" ", "\n">>, language |-> "Python"]
    /\ run_ret = NoCodeToRun

\* C3: on every exit path of run_code that created a temporary file, the file
\* no longer exists when run_code returns.
C3_TempFileNeverLeaks ==
    (RanCode /\ run_obs.created) => ~run_obs.temp_exists

\* C4: each subprocess outcome has its own signal, for both executable
\* languages: exit code 0 gives "Execution Successful" with stdout, a non-zero
\* exit "Execution Failed" with stderr, a timeout "Execution timeout", a missing
\* interpreter the runtime-not-found signal.
C4_OutcomeSignals ==
    RanCode =>
        /\ run_obs.proc = "exit0" => run_ret = ExecutionSuccessful(run_obs.stdout)
        /\ run_obs.proc = "exit1" => run_ret = ExecutionFailed(run_obs.stderr)
        /\ run_obs.proc = "TimeoutExpired" => run_ret = ExecutionTimeout
        /\ run_obs.proc = "FileNotFoundError" => run_ret = NodeNotInstalled

----------------------------------------------------------------------------
(* Claims about the response parser, checked under SpecParse *)

\* the last call sent the request and parsed the text the model replied
Parsed ==
    /\ last_op = "analyze_code_short"
    /\ an_obs.completion_calls = 1
    /\ model_reply.kind = "text"
    /\ an_ret.kind = "return"

Reply == model_reply.content

\* the parsed values inside the returned display fields
StatusField == an_ret.val.error_status[2]

CodeField == an_ret.val.corrected_code

TimeField == an_ret.val.complexity_display[3]

SpaceField == an_ret.val.complexity_display[7]

\* a letter without its case
Fold(c) == IF c \in LowerSet THEN ToUpper[c] ELSE c

\* phrase occurs in s at index i, whatever the case of the letters
OccursAtAnyCase(s, i, phrase) ==
    /\ i + Len(phrase) - 1 <= Len(s)
    /\ \A k \in 1..Len(phrase) : Fold(s[i + k - 1]) = Fold(phrase[k])

OccursAnyCase(s, phrase) == \E i \in 1..Len(s) : OccursAtAnyCase(s, i, phrase)

\* The line that ends at the newline s[j] opens a fenced block: it ends with
\* three backticks and a language tag of word characters, which may be empty.
OpensBlock(s, j) ==
    /\ s[j] = "\n"
    /\ \E i \in 1..(j - 3) :
        /\ StartsAt(s, i, Fence)
        /\ \A m \in (i + 3)..(j - 1) : s[m] \in WordChars

\* the newlines after index j at which a line beginning with three backticks starts
Closings(s, j) == {k \in (j + 1)..Len(s) : StartsAt(s, k, NewlineFence)}

\* the ends of the opening lines of the fenced blocks of s that are closed
BlockOpenings(s) == {j \in 1..Len(s) : OpensBlock(s, j) /\ Closings(s, j) # {}}

HasFencedBlock(s) == BlockOpenings(s) # {}

\* the text between the opening line of the first fenced block and its closing line
FirstBlockContent(s) ==
    LET j == SetMin(BlockOpenings(s))
    IN  SubSeq(s, j + 1, SetMin(Closings(s, j)) - 1)

\* what the parser makes of the content of a block
Cleaned(content) ==
    IF OccursAnyCase(Strip(content), NoCorrection) THEN CodeIsClean ELSE Strip(content)

C6_LiteralPhrases ==
    Parsed =>
        StatusField = IF Contains(Reply, NO_ERRORS) /\ ~Contains(Reply, ERRORS_FOUND)
                      THEN NoErrorsDetected
                      ELSE ErrorsFound

\* C6 amended: the status is NO ERRORS DETECTED exactly when the phrase
\* "NO ERRORS" occurs in the reply in any letter case and the phrase
\* "ERRORS FOUND" occurs in no letter case; every other reply is classified
\* ERRORS FOUND.
C6_PhrasesAnyCase ==
    Parsed =>
        StatusField = IF /\ OccursAnyCase(Reply, NO_ERRORS)
                         /\ ~OccursAnyCase(Reply, ERRORS_FOUND)
                      THEN NoErrorsDetected
                      ELSE ErrorsFound

C6_Witness ==
    /\ Parsed
    /\ Reply = FragBlockPy \o FragNoErrorsLower
    /\ StatusField = NoErrorsDetected

SeparatedO(s, a, j) ==
    /\ j > a
    /\ OccursAtAnyCase(s, j, <<"O", "(">>)
    /\ \A m \in a..(j - 1) : s[m] = ":" \/ s[m] \in Whitespace

\* the first closing parenthesis after the O( at j is at k, with at least one
\* character between
ClosesAt(s, j, k) ==
    /\ k > j + 2
    /\ s[k] = ")"
    /\ \A m \in (j + 2)..(k - 1) : s[m] # ")"

\* where "keyword: O(X)" occurs in s, keyword in any letter case
ComplexityOccurrences(s, keyword) ==
    {i \in 1..Len(s) :
        /\ OccursAtAnyCase(s, i, keyword)
        /\ \E j \in (i + Len(keyword))..Len(s) :
              /\ SeparatedO(s, i + Len(keyword), j)
              /\ \E k \in (j + 2)..Len(s) : ClosesAt(s, j, k)}

\* the X of the first occurrence
FirstComplexity(s, keyword) ==
    LET i == SetMin(ComplexityOccurrences(s, keyword))
        j == CHOOSE j \in (i + Len(keyword))..Len(s) : SeparatedO(s, i + Len(keyword), j)
        k == CHOOSE k \in (j + 2)..Len(s) : ClosesAt(s, j, k)
    IN  SubSeq(s, j + 2, k - 1)

\* the field the claim gives for keyword
ComplexityOf(s, keyword) ==
    IF ComplexityOccurrences(s, keyword) = {}
    THEN NotAnalyzed
    ELSE <<"O", "(">> \o Strip(FirstComplexity(s, keyword)) \o <<")">>

\* C8: the time (space) complexity field is O(X), X taken without its
\* surrounding whitespace from the first occurrence, in any letter case, of
\* TIME COMPLEXITY (SPACE COMPLEXITY), colons and whitespace, O(X); it is
\* "Not analyzed" exactly when the reply has no such occurrence; each field
\* depends on the occurrences of its own keyword alone.
C8_ComplexityFields ==
    Parsed =>
        /\ TimeField = ComplexityOf(Reply, TIME_COMPLEXITY)
        /\ SpaceField = ComplexityOf(Reply, SPACE_COMPLEXITY)
        /\ TimeField = NotAnalyzed <=> ComplexityOccurrences(Reply, TIME_COMPLEXITY) = {}
        /\ SpaceField = NotAnalyzed <=> ComplexityOccurrences(Reply, SPACE_COMPLEXITY) = {}

C8_Witness ==
    /\ Parsed
    /\ Reply = FragTimeMixed \o FragTime
    /\ TimeField = <<"O", "(", "n", "*", "n", ")">>
    /\ SpaceField = NotAnalyzed

FieldNames ==
    {"analysis", "error_status", "corrected_code", "complexity_display", "status_display"}

\* C10: analyze_code_short never raises: for every reply of the model it
\* returns its five fields, and for a reply it can read they are the reply, a
\* status and, where the reply has no fence or no O(, the placeholders.
C10_ParserNeverFails ==
    last_op = "analyze_code_short" =>
        /\ an_ret.kind = "return"
        /\ DOMAIN an_ret.val = FieldNames
        /\ (an_obs.completion_calls = 1 /\ model_reply.kind = "text") =>
              /\ an_ret.val.analysis = Reply
              /\ an_ret.val.status_display = <<CheckMark, "Completed at ", Timestamp>>
              /\ StatusField \in {NoErrorsDetected, ErrorsFound}
              /\ ~Contains(Reply, Fence) => CodeField = NoCorrectionsNeeded
              /\ ~OccursAnyCase(Reply, <<"O", "(">>) =>
                    TimeField = NotAnalyzed /\ SpaceField = NotAnalyzed

C10_Witness ==
    /\ Parsed
    /\ Reply = FragNewline \o FragErrorsFoundMixed
    /\ StatusField = ErrorsFound
    /\ CodeField = NoCorrectionsNeeded
    /\ TimeField = NotAnalyzed
    /\ SpaceField = NotAnalyzed

----------------------------------------------------------------------------
(* Claims about generate_summary, checked under SpecSummary *)

\* analyze_code got a reply with text and summarised it
Summarised ==
    /\ last_op = "analyze_code"
    /\ an_obs.completion_calls = 1
    /\ model_reply.kind = "text"

SummaryOf == an_ret.val.summary

\* the positions of the newlines of s
Newlines(s) == {p \in 1..Len(s) : s[p] = "\n"}

\* the lines of s are what lies between its newlines
LineCount(s) == Cardinality(Newlines(s)) + 1

\* the position of the m-th newline of s; 0 and Len(s) + 1 bound the text
NewlineAt(s, m) ==
    LET nl == Newlines(s)
    IN  IF m = 0 THEN 0
        ELSE IF m > Cardinality(nl) THEN Len(s) + 1
        ELSE CHOOSE p \in nl : Cardinality({q \in nl : q < p}) = m - 1

\* the m-th line of s, without its newline
LineOf(s, m) == SubSeq(s, NewlineAt(s, m - 1) + 1, NewlineAt(s, m) - 1)

\* the line has a character that is not white space
NonEmptyLine(l) == \E i \in 1..Len(l) : l[i] \notin Whitespace

\* the first characters of the line that are not white space are a fence
FenceLine(l) ==
    \E i \in 1..Len(l) :
        /\ \A j \in 1..(i - 1) : l[j] \in Whitespace
        /\ i + 2 <= Len(l)
        /\ \A j \in i..(i + 2) : l[j] = Backtick

\* the numbers of the non-empty non-fence lines among the first ten
KeptLines(s) ==
    {m \in 1..LineCount(s) :
        LET l == LineOf(s, m) IN m <= 10 /\ NonEmptyLine(l) /\ ~FenceLine(l)}

\* the first five of them
ShownLines(s) ==
    LET kept == KeptLines(s)
    IN  {m \in kept : Cardinality({k \in kept : k < m}) < 5}

\* the r-th line number of a set of line numbers
LineAt(shown, r) ==
    CHOOSE m \in shown : Cardinality({k \in shown : k < m}) = r - 1

\* the summary without the notice that ends it
SummaryBody ==
    SubSeq(SummaryOf, 1, Len(SummaryOf) - Len(SeeFullAnalysis))

\* C9: the summary is the non-empty non-fence lines among the first ten lines
\* of the reply, the first five of them at most, in their order and unchanged,
\* followed by the notice; no line after the tenth is in it.
C9_SummaryLines ==
    Summarised =>
        /\ Len(SummaryOf) >= Len(SeeFullAnalysis)
        /\ SubSeq(SummaryOf, Len(SummaryBody) + 1, Len(SummaryOf)) = SeeFullAnalysis
        /\ LET shown == ShownLines(model_reply.content)
               body == SummaryBody
           IN  IF shown = {}
               THEN body = << >>
               ELSE /\ LineCount(body) = Cardinality(shown)
                    /\ \A r \in 1..Cardinality(shown) :
                           LineOf(body, r) = LineOf(model_reply.content, LineAt(shown, r))

\* a reply of more than ten lines, with a fence line and a blank line among
\* the first ten, fewer than five lines kept, and a line with text after the
\* tenth
C9_Witness ==
    /\ Summarised
    /\ LineCount(model_reply.content) > 10
    /\ Cardinality(KeptLines(model_reply.content)) \in 1..4
    /\ \E m \in 1..10 : FenceLine(LineOf(model_reply.content, m))
    /\ \E m \in 1..10 : ~NonEmptyLine(LineOf(model_reply.content, m))
    /\ \E m \in 11..LineCount(model_reply.content) :
           /\ NonEmptyLine(LineOf(model_reply.content, m))
           /\ ~FenceLine(LineOf(model_reply.content, m))

\* a reply with more than five lines kept
C9_WitnessFive ==
    /\ Summarised
    /\ Cardinality(KeptLines(model_reply.content)) > 5
    /\ LineCount(SummaryBody) = 5

----------------------------------------------------------------------------
(* Claims about signup and login, checked under SpecAuth *)

\* the step is a call of signup, of login
SignupStep == last_op' = "signup"

LoginStep == last_op' = "login"

\* the last call was a signup that was accepted
SignupAccepted == last_op = "signup" /\ auth_ret.main_page = Visible

\* what the claim has signup reject, for the arguments of the call of this step
SignupMustReject ==
    \/ auth_call'.username = ""
    \/ auth_call'.password = << >>
    \/ auth_call'.confirm_password # auth_call'.password
    \/ Len(auth_call'.password) < 6
    \/ auth_call'.username \in DOMAIN users_db

\* the store after the step is the store before it and one new record for
\* the username of the call, with the password of the call and no analyses
OneRecordInserted ==
    /\ DOMAIN users_db' = DOMAIN users_db \cup {auth_call'.username}
    /\ \A u \in DOMAIN users_db : users_db'[u] = users_db[u]
    /\ users_db'[auth_call'.username].password = auth_call'.password
    /\ users_db'[auth_call'.username].analyses_count = 0

\* the users file holds a document of exactly the records of db
FileHolds(file, db) ==
    /\ file.state = "json"
    /\ {file.doc[i][1] : i \in 1..Len(file.doc)} = DOMAIN db
    /\ \A i \in 1..Len(file.doc) : file.doc[i][2] = db[file.doc[i][1]]

\* C11: signup rejects an empty username or password, a confirmation that
\* differs, a password under 6 characters and a username already in the store,
\* and a rejected signup leaves users_db and the file unchanged; every other
\* signup inserts exactly one record for the username, with the given password
\* and analyses_count 0, and rewrites the file.
C11_SignupPersists ==
    [][SignupStep =>
          IF SignupMustReject
          THEN /\ auth_ret'.main_page = None
               /\ auth_ret'.msg[1] = CrossMark
               /\ users_db' = users_db
               /\ users_file' = users_file
          ELSE /\ auth_ret'.msg = AccountCreated(auth_call'.username)
               /\ OneRecordInserted
               /\ FileHolds(users_file', users_db')]_vars

\* what holds of signup whatever the file system does: the rejections, and the
\* record in users_db; the file is either rewritten or not holding the store
C11_SignupInMemory ==
    [][SignupStep =>
          IF SignupMustReject
          THEN /\ auth_ret'.main_page = None
               /\ auth_ret'.msg[1] = CrossMark
               /\ users_db' = users_db
               /\ users_file' = users_file
          ELSE /\ auth_ret'.msg = AccountCreated(auth_call'.username)
               /\ OneRecordInserted
               /\ \/ FileHolds(users_file', users_db')
                  \/ users_file' = users_file
                  \/ users_file'.state = "truncated"]_vars

\* an accepted signup after which the file does not hold the new record
C11_RecordNotInFile ==
    /\ SignupAccepted
    /\ auth_call.username \in DOMAIN users_db
    /\ ~FileHolds(users_file, users_db)

\* C12 as stated: a login with the username and password of the accepted
\* signup just before it succeeds and sets the current user; a login of an
\* existing user with any password other than the stored one fails with the
\* incorrect-password error.
C12_WrongPasswordAlwaysIncorrect ==
    [][LoginStep =>
          /\ (SignupAccepted /\ auth_call'.username = auth_call.username
                             /\ auth_call'.password = auth_call.password)
                => /\ auth_ret'.msg = WelcomeBack(auth_call.username)
                   /\ current_user' = auth_call.username
          /\ (auth_call'.username \in DOMAIN users_db
                /\ auth_call'.password # users_db[auth_call'.username].password)
                => auth_ret'.msg = IncorrectPassword]_vars

\* C12 amended: a login with the username and password of the accepted signup
\* just before it succeeds and sets the current user; a login of an existing
\* user with a password other than the stored one fails and leaves the current
\* user as it was, with the incorrect-password error when the password is not
\* empty and with the fields-required error when it is, never with the
\* user-not-found error.
C12_LoginAfterSignup ==
    [][LoginStep =>
          /\ (SignupAccepted /\ auth_call'.username = auth_call.username
                             /\ auth_call'.password = auth_call.password)
                => /\ auth_ret'.msg = WelcomeBack(auth_call.username)
                   /\ auth_ret'.main_page = Visible
                   /\ current_user' = auth_call.username
          /\ (auth_call'.username \in DOMAIN users_db
                /\ auth_call'.password # users_db[auth_call'.username].password)
                => /\ auth_ret'.msg = IF auth_call'.password = << >>
                                      THEN CredentialsRequired
                                      ELSE IncorrectPassword
                   /\ auth_ret'.msg # UserNotFound
                   /\ auth_ret'.main_page = None
                   /\ current_user' = current_user]_vars

\* bob, who signed up after alice had logged in, logs in with the password he
\* signed up with
C12_Witness ==
    /\ last_op = "login"
    /\ auth_call.username = "bob"
    /\ {"alice", "bob"} \subseteq DOMAIN users_db
    /\ auth_call.password = users_db["bob"].password
    /\ auth_ret.msg = WelcomeBack("bob")
    /\ current_user = "bob"

\* a login of an existing user with a wrong password that is not empty
C12_WitnessWrongPassword ==
    /\ last_op = "login"
    /\ auth_call.username \in DOMAIN users_db
    /\ auth_call.password # users_db[auth_call.username].password
    /\ auth_ret.msg = IncorrectPassword

\* C13 as stated: a signup with the username of the accepted signup just
\* before it leaves the one record of that username with the first password
\* and reports the duplicate-username failure.
C13_SecondSignupDuplicate ==
    [][(SignupStep /\ SignupAccepted /\ auth_call'.username = auth_call.username) =>
          /\ users_db' = users_db
          /\ users_db'[auth_call.username].password = auth_call.password
          /\ auth_ret'.msg = UsernameExists]_vars

\* C13 amended: a signup with the username of the accepted signup just before
\* it is rejected and leaves the one record of that username with the first
\* password; it reports the duplicate-username failure when its password is
\* not empty, is confirmed and has 6 characters or more, and otherwise the
\* failure of the first of these tests it does not pass.
C13_SecondSignupRejected ==
    [][(SignupStep /\ SignupAccepted /\ auth_call'.username = auth_call.username) =>
          /\ users_db' = users_db
          /\ users_db'[auth_call.username].password = auth_call.password
          /\ auth_ret'.main_page = None
          /\ auth_ret'.msg =
                IF auth_call'.password = << >> THEN CredentialsRequired
                ELSE IF auth_call'.confirm_password # auth_call'.password
                THEN PasswordsDoNotMatch
                ELSE IF Len(auth_call'.password) < 6 THEN PasswordTooShort
                ELSE UsernameExists]_vars

\* a second signup of a username, with another password that would be
\* accepted, reported as a duplicate; the record has the first password
C13_Witness ==
    /\ last_op = "signup"
    /\ auth_ret.msg = UsernameExists
    /\ auth_call.username \in DOMAIN users_db
    /\ Len(auth_call.password) >= 6
    /\ auth_call.confirm_password = auth_call.password
    /\ users_db[auth_call.username].password # auth_call.password

----------------------------------------------------------------------------
(* Claims about the session state, checked under SpecSession *)

AnalyzeStep == last_op' = "analyze_code_short"

\* the call of analyze_code_short of this step returned a completed analysis
CompletedStep == AnalyzeStep /\ an_ret'.val.status_display[1] = CheckMark

\* the login of this step names a user of the store and that user's password
LoginMatches ==
    /\ auth_call'.username \in DOMAIN users_db
    /\ auth_call'.password = users_db[auth_call'.username].password

\* C14: current_user is unset or a username of users_db in every state; it is
\* set only by a login whose username exists and whose password is the stored
\* one, it is cleared only by logout, and a rejected login, a signup, an
\* analysis and a code run leave it as it is.
C14_CurrentUserIsAUser ==
    /\ [](current_user = None \/ current_user \in DOMAIN users_db)
    /\ [][/\ current_user' # current_user =>
                \/ LoginStep /\ LoginMatches /\ current_user' = auth_call'.username
                \/ last_op' = "logout" /\ current_user' = None
          /\ (LoginStep /\ LoginMatches) => current_user' = auth_call'.username
          /\ (LoginStep /\ ~LoginMatches) =>
                current_user' = current_user /\ auth_ret'.msg[1] = CrossMark
          /\ last_op' = "logout" => current_user' = None
          /\ last_op' \in {"signup", "analyze_code_short", "run_code"} =>
                current_user' = current_user]_vars

\* bob's login with a wrong password while alice is logged in leaves alice
\* logged in
C14_Witness ==
    /\ last_op = "login"
    /\ auth_call.username = "bob"
    /\ "bob" \in DOMAIN users_db
    /\ auth_ret.msg = IncorrectPassword
    /\ current_user = "alice"

\* C16: with the handlers called one at a time, a call of analyze_code_short
\* that returns a completed analysis adds exactly 1 to the analyses_count of
\* the current user and changes no other record, and a call that returns a
\* warning or a failure leaves every record as it is.
C16_CountedOncePerAnalysis ==
    [][AnalyzeStep =>
          IF CompletedStep
          THEN /\ current_user \in DOMAIN users_db
               /\ DOMAIN users_db' = DOMAIN users_db
               /\ users_db'[current_user].analyses_count
                     = users_db[current_user].analyses_count + 1
               /\ users_db'[current_user].password = users_db[current_user].password
               /\ \A u \in DOMAIN users_db \ {current_user} : users_db'[u] = users_db[u]
          ELSE users_db' = users_db]_vars

\* bob's analysis is counted for bob and not for alice
C16_Witness ==
    /\ last_op = "analyze_code_short"
    /\ an_ret.val.status_display[1] = CheckMark
    /\ current_user = "bob"
    /\ {"alice", "bob"} \subseteq DOMAIN users_db
    /\ users_db["bob"].analyses_count = 1
    /\ users_db["alice"].analyses_count = 0

\* C17: within a process the usernames of users_db only grow, the password of
\* a record stays the one given at signup, and its analyses_count never
\* decreases, whatever handler is called.
C17_RecordsOnlyGrow ==
    [][/\ DOMAIN users_db \subseteq DOMAIN users_db'
       /\ \A u \in DOMAIN users_db :
             /\ users_db'[u].password = users_db[u].password
             /\ users_db'[u].analyses_count >= users_db[u].analyses_count
       /\ SignupStep =>
             \A u \in DOMAIN users_db' \ DOMAIN users_db :
                 users_db'[u].password = auth_call'.password]_vars

\* a signup of alice's name with another password after her analysis was
\* counted: the record has the count and the first password
C17_Witness ==
    /\ last_op = "signup"
    /\ auth_call.username = "alice"
    /\ auth_ret.msg = UsernameExists
    /\ "alice" \in DOMAIN users_db
    /\ users_db["alice"].analyses_count = 1
    /\ users_db["alice"].password # auth_call.password

\* the call of this step asked the model and the model call failed
FailedCallStep ==
    /\ last_op' \in {"analyze_code_short", "analyze_code"}
    /\ an_obs'.completion_calls = 1
    /\ model_reply.kind = "error"

\* what a handler shows for a failed model call: the error text in its
\* display, nothing parsed
FailureShown ==
    /\ an_ret'.kind = "return"
    /\ IF last_op' = "analyze_code_short"
       THEN /\ an_ret'.val.analysis = <<CrossMark, "Error: ", model_reply.exc>>
            /\ an_ret'.val.status_display = <<CrossMark, "Failed: ", model_reply.exc>>
            /\ an_ret'.val.error_status = <<CrossMark, "ANALYSIS FAILED">>
            /\ an_ret'.val.corrected_code = << >>
            /\ an_ret'.val.complexity_display = << >>
       ELSE /\ an_ret'.val.analysis = <<CrossMark, "Error during analysis: ", model_reply.exc>>
            /\ an_ret'.val.summary = << >>
            /\ an_ret'.val.status = << >>

\* C18 as stated: when the model call fails with a transport or an
\* authentication error the handler does not raise, shows the error's message
\* in the display, produces no parsed field, and leaves users_db, current_user
\* and the client as they are.
C18_FailureChangesNothing ==
    [][FailedCallStep =>
          /\ FailureShown
          /\ users_db' = users_db
          /\ current_user' = current_user
          /\ client' = client]_vars

\* C18 amended: when the model call fails with a transport or an
\* authentication error the handler does not raise, shows the error's message
\* in the display, produces no parsed field, and leaves users_db, the users
\* file and current_user as they are; the client is as it was when there was
\* one, and otherwise it is the client the call built from its api_key
\* argument before it asked the model.
C18_FailureKeepsNewClient ==
    [][FailedCallStep =>
          /\ FailureShown
          /\ users_db' = users_db
          /\ users_file' = users_file
          /\ current_user' = current_user
          /\ client' = IF client # NoClient THEN client
                       ELSE IF last_op' = "analyze_code_short"
                       THEN Groq(Strip(an_call'.api_key))
                       ELSE Groq(an_call'.api_key)]_vars

\* an authentication error shown to alice
C18_Witness ==
    /\ last_op = "analyze_code_short"
    /\ an_obs.completion_calls = 1
    /\ model_reply.exc = "AuthenticationError"
    /\ an_ret.val.analysis = <<CrossMark, "Error: ", "AuthenticationError">>
    /\ current_user = "alice"
    /\ client = Groq(<<"k">>)

\* C19: analyze_code_short asks the model exactly once when a user is logged
\* in, a client is configured (before the call or by it) and the code is not
\* blank, and not at all otherwise; its guards come in the order login, API
\* key and client, blank code, so without a logged-in user it returns the
\* login-required result whatever the other arguments are.
C19_OneCallBehindGuards ==
    [][AnalyzeStep =>
          /\ an_obs'.completion_calls =
                IF /\ current_user # None
                   /\ client' # NoClient
                   /\ HasNonWhitespace(an_call'.code)
                THEN 1 ELSE 0
          /\ current_user = None =>
                /\ an_ret'.val = LoginRequired
                /\ client' = client
          /\ (current_user # None /\ client' = NoClient) =>
                /\ an_ret'.val.error_status = <<WarningSign, "API Key Required">>
                /\ an_ret'.val.status_display = <<WarningSign, "Configure API Key">>
          /\ (current_user # None /\ client' # NoClient
                /\ ~HasNonWhitespace(an_call'.code)) =>
                an_ret'.val = CodeRequired]_vars

\* a call without a logged-in user, with a key and code, that is told to log in
C19_Witness ==
    /\ last_op = "analyze_code_short"
    /\ current_user = None
    /\ an_call.code = <<"p">>
    /\ an_call.api_key = <<"k">>
    /\ an_ret.val = LoginRequired
    /\ an_obs.completion_calls = 0
    /\ client = NoClient

\* a call that asked the model once
C19_WitnessOneCall ==
    /\ last_op = "analyze_code_short"
    /\ current_user = "alice"
    /\ an_call.api_key = <<"k">>
    /\ an_obs.completion_calls = 1

----------------------------------------------------------------------------
(* Claims about the users file, checked under SpecStore *)

\* the last call was a signup that was accepted or an analysis that was counted
StoreWritten ==
    \/ SignupAccepted
    \/ last_op = "analyze_code_short" /\ an_ret.val.status_display[1] = CheckMark

\* every record of users_db is, with its password and its count, in the
\* mapping a process started now would load
Durable ==
    \A u \in DOMAIN users_db :
        /\ u \in DOMAIN LoadUsers(users_file)
        /\ LoadUsers(users_file)[u].password = users_db[u].password
        /\ LoadUsers(users_file)[u].analyses_count = users_db[u].analyses_count

\* C15: after an accepted signup and after a counted analysis, every record of
\* users_db is in the mapping loaded from the file at the next process start,
\* with the same password and analyses_count, after any sequence of signups,
\* analyses and restarts.
C15_StoreDurable == StoreWritten => Durable

\* what holds of the store whatever the file system does: a write that
\* succeeded makes the file hold users_db, and a restart makes users_db what
\* the file holds, or empty when there is no document to load
C15_StoreFollowsFile ==
    [][/\ (StoreWritten' /\ FileHolds(users_file', users_db')) => Durable'
       /\ last_op' = "start" =>
             /\ users_file' = users_file
             /\ IF users_file.state = "json"
                THEN FileHolds(users_file, users_db')
                ELSE DOMAIN users_db' = {}]_vars

\* a process that was restarted after a write of the file that failed half
\* way, and has no record at all
C15_RecordsLost ==
    /\ last_op = "start"
    /\ DOMAIN users_db = {}
    /\ users_file.state = "truncated"

----------------------------------------------------------------------------
(* Claims about concurrent sessions, checked under SpecConcurrent *)

\* the step is the end of a call that returns a completed analysis
CompletedEndStep ==
    /\ an_thread.pc = "waiting"
    /\ an_thread'.pc = "returned"
    /\ an_ret'.val.status_display[1] = CheckMark

\* C20: with two sessions the count is not incremented exactly once for the
\* user who started the analysis: a completed analysis adds 1 to the count of
\* whoever is the current user when the reply has arrived, and to no count
\* when nobody is, so a login or logout of the other session between the
\* login check and the count update takes the count away from the user who
\* started the analysis.
C20_CountGoesToCurrentUser ==
    [][CompletedEndStep =>
          /\ DOMAIN users_db' = DOMAIN users_db
          /\ \A u \in DOMAIN users_db :
                users_db'[u].analyses_count =
                    users_db[u].analyses_count + (IF u = current_user THEN 1 ELSE 0)
          /\ an_thread.started_by # current_user =>
                users_db'[an_thread.started_by] = users_db[an_thread.started_by]]_vars

\* alice's analysis has completed and is counted for bob, who logged in from
\* the other session while alice's call waited for the reply
C20_Witness ==
    /\ last_op = "analyze_code_short"
    /\ an_thread.pc = "returned"
    /\ an_thread.started_by = "alice"
    /\ an_ret.val.status_display[1] = CheckMark
    /\ users_db["alice"].analyses_count = 0
    /\ users_db["bob"].analyses_count = 1

\* alice's analysis has completed and is counted for nobody, after a logout
\* from the other session
C20_WitnessNobody ==
    /\ last_op = "analyze_code_short"
    /\ an_thread.pc = "returned"
    /\ an_thread.started_by = "alice"
    /\ an_ret.val.status_display[1] = CheckMark
    /\ current_user = None
    /\ \A u \in DOMAIN users_db : users_db[u].analyses_count = 0

----------------------------------------------------------------------------
(* Claims about the pages of one browser session, checked under SpecUI *)

\* C21: the main page is visible, and run_code spawns a subprocess, only while
\* a user is logged in.
C21_LoginGate ==
    (page.main_page = Visible \/ run_obs.spawned) => current_user # None

\* a signup alone has shown the main page, and the Run button has executed
\* the submitted code with nobody logged in
C21_RunAfterSignupOnly ==
    /\ last_op = "run_code"
    /\ run_obs.spawned
    /\ current_user = None
    /\ page = [main_page |-> Visible, auth_page |-> Visible]

\* Analyze & Run has executed the submitted code although its analysis was
\* rejected with 'Please login first'
C21_RunAfterRejectedAnalysis ==
    /\ last_op = "run_and_analyze"
    /\ an_ret.val = LoginRequired
    /\ run_obs.spawned
    /\ current_user = None

\* what the handlers do guarantee: the main page is shown only after an
\* accepted signup or login, so a subprocess is spawned only when some user
\* has signed up
C21_SpawnNeedsAnAccount ==
    (page.main_page = Visible \/ run_obs.spawned) => DOMAIN users_db # {}

----------------------------------------------------------------------------
(* Claims about the model client, checked under SpecClient *)

\* C22: once a client is configured, a step replaces it only when the step is
\* a call of initialize_groq from the Connect button with a key that is not
\* blank, and the new client is built from that key, stripped; so analyses
\* with another api_key argument, a failed or blank-key initialize_groq,
\* logouts and logins leave the client as it is, and an analysis that is sent
\* to the model is sent with the client that was there before the call.
C22_ClientReplacedOnlyByConnect ==
    [][/\ (client # NoClient /\ client' # client) =>
             /\ last_op' = "initialize_groq"
             /\ ~IsBlank(an_call'.api_key)
             /\ client' = Groq(Strip(an_call'.api_key))
       /\ (client # NoClient /\ last_op' \in {"analyze_code_short", "login", "logout"}) =>
             client' = client
       /\ (/\ client # NoClient
           /\ last_op' = "initialize_groq"
           /\ (HasIcon(an_ret'.val, CrossMark) \/ HasIcon(an_ret'.val, WarningSign))) =>
             client' = client]_vars

\* after alice's analysis, bob has logged in and his analysis, called with
\* the key "j", was sent to the model with the client built from the key "k"
C22_Witness ==
    /\ last_op = "analyze_code_short"
    /\ current_user = "bob"
    /\ users_db["alice"].analyses_count = 1
    /\ an_obs.completion_calls = 1
    /\ Strip(an_call.api_key) = <<"j">>
    /\ client = Groq(<<"k">>)

\* a Connect with a blank key, and one that failed, have left the client as
\* it was
C22_WitnessFailedConnect ==
    /\ last_op = "initialize_groq"
    /\ HasIcon(an_ret.val, CrossMark)
    /\ an_call.api_key = <<" ", "j">>
    /\ client = Groq(<<"k">>)

\* a Connect with another key has replaced the client
C22_WitnessReplaced ==
    /\ last_op = "initialize_groq"
    /\ HasIcon(an_ret.val, CheckMark)
    /\ client = Groq(<<"j">>)
    /\ \E u \in DOMAIN users_db : users_db[u].analyses_count = 1

----------------------------------------------------------------------------
(* Claims about the format the prompt requests, checked under SpecParse *)

\* the reply is the two complexity lines exactly as lines 215-216 of the prompt
\* request them, with X = n and Y = 1, alone or after the error status
RepliedInPromptFormat ==
    /\ last_op = "analyze_code_short"
    /\ an_ret.kind = "return"
    /\ an_obs.completion_calls = 1
    /\ model_reply.kind = "text"
    /\ model_reply.content \in {FragPromptFormat, FragNoErrors \o FragPromptFormat}

\* C23: a reply with the lines '**TIME COMPLEXITY:** O(n)' and
\* '**SPACE COMPLEXITY:** O(1)' is parsed to the time complexity O(n) and the
\* space complexity O(1).
C23_PromptFormatParsed ==
    RepliedInPromptFormat =>
        /\ TimeField = <<"O", "(", "n", ")">>
        /\ SpaceField = <<"O", "(", "1", ")">>

\* what the parser does with such a reply: the '**' that follows the colon
\* is neither a colon nor white space, so neither pattern matches and both
\* fields are the placeholder
C23_PromptFormatNotAnalyzed ==
    RepliedInPromptFormat =>
        /\ TimeField = NotAnalyzed
        /\ SpaceField = NotAnalyzed

\* such a reply has been parsed
C23_PromptFormatSeen == RepliedInPromptFormat /\ TimeField = NotAnalyzed

============================================================================
